---- MODULE Spec2Model ----
(***************************************************************************)
(* Model of samsa/brokers.py: BrokerMap and Broker, the lazily configured  *)
(* mirror of the ZooKeeper tree /brokers/ids.                               *)
(*                                                                         *)
(* Threads: a set of caller threads that use the accessors, and the        *)
(* ZooKeeper client's event thread, which runs the watch callbacks.        *)
(* Every _configure is cut at the points where it reads or writes shared   *)
(* state, so that the threads interleave there.                            *)
(***************************************************************************)
EXTENDS Integers, Sequences, FiniteSets, TLC

(* ------------------------------ bounds --------------------------------- *)

\* Number of broker ids that register under /brokers/ids: 9, 10, ...
MaxBrokers == 2
\* Broker objects that may be created in one behaviour.
MaxObj == 2
\* Changes made to the ZooKeeper tree in one behaviour.
MaxChanges == 2
\* Caller threads.
MaxCallers == 2
\* Watches on its node with which a Broker may still be configured by a caller.
MaxWatch == 1

(* ------------------------- strings and parsing ------------------------- *)

DigitChars == <<"0", "1", "2", "3", "4", "5", "6", "7", "8", "9">>

IsDigit(c) == \E i \in 1..10 : DigitChars[i] = c

DigitVal(c) == (CHOOSE i \in 1..10 : DigitChars[i] = c) - 1

\* int(s) succeeds on a non-empty string of decimal digits.
IsInt(s) == Len(s) > 0 /\ \A i \in 1..Len(s) : IsDigit(s[i])

RECURSIVE ParseInt(_)
ParseInt(s) ==
    IF Len(s) = 0 THEN 0
    ELSE 10 * ParseInt(SubSeq(s, 1, Len(s) - 1)) + DigitVal(s[Len(s)])

\* '%s' % n for a non-negative integer n.
RECURSIVE FormatInt(_)
FormatInt(n) ==
    IF n < 10 THEN <<DigitChars[n + 1]>>
    ELSE FormatInt(n \div 10) \o <<DigitChars[(n % 10) + 1]>>

\* s.split(sep): the fields of s between the separators, at least one field.
RECURSIVE Split(_, _)
Split(s, sep) ==
    IF \A i \in 1..Len(s) : s[i] # sep THEN <<s>>
    ELSE LET k == CHOOSE i \in 1..Len(s) :
                      s[i] = sep /\ \A j \in 1..(i - 1) : s[j] # sep
         IN <<SubSeq(s, 1, k - 1)>> \o Split(SubSeq(s, k + 1, Len(s)), sep)

(* --------------------------- the ZooKeeper tree ------------------------ *)

BrokerIds == {8 + i : i \in 1..MaxBrokers}

\* Names of the children of /brokers/ids: decimal broker-id strings.
ChildNames == {FormatInt(n) : n \in BrokerIds}

\* Values a broker node may hold: "<creator>:<host>:<port>", and malformed ones.
FirstData == <<"1", ":", "a", ":", "9", "2">>
GoodData == {FirstData, <<"1", ":", "b", ":", "8">>}
BadData  == {<<"1", ":", "c">>,
             <<"1", ":", "c", ":", "x">>,
             <<"1", ":", "c", ":", "9", ":", "z">>}
DataValues == GoodData \cup BadData

Callers == 1..MaxCallers
ZkThread == 0
Threads == Callers \cup {ZkThread}

\* The registry is entity 0, the Broker objects are entities 1..MaxObj.
MapEntity == 0
Objs == 1..MaxObj

None == <<>>
Some(v) == <<v>>

\* What Broker._configure makes of the node value d (lines 132-133): the host
\* and the port it assigns.
ParsedPair(d) == <<Some(Split(d, ":")[2]), Some(ParseInt(Split(d, ":")[3]))>>

VARIABLES
    rootExists,   \* whether /brokers/ids exists
    nodes,        \* child name -> node value, for the children of /brokers/ids
    changes,      \* number of changes made to the tree so far
    armed,        \* entity -> number of watches armed with its _configure
    fired,        \* entity -> number of its watches fired and not yet delivered
    brokers,      \* BrokerMap.__brokers: broker id -> Broker object
    heap,         \* the Broker objects created so far, in creation order
    configured,   \* entity -> "Unconfigured" | "Configuring" | "Configured"
    pc,           \* thread -> where it is
    frame,        \* thread -> the locals of the call it is in
    returned,     \* the call that ended in the last step, with its outcome
    hist          \* history: what the watch callbacks of each entity have done

vars == <<rootExists, nodes, changes, armed, fired, brokers, heap,
          configured, pc, frame, returned, hist>>

zkVars == <<rootExists, nodes, changes>>

EmptyMap == [k \in {} |-> 0]

NoFrame == [self |-> MapEntity, todo |-> {}, alive |-> {},
            dead |-> {}, cur |-> 0, obj |-> 0, data |-> <<>>, before |-> EmptyMap,
            snap |-> {}, n0 |-> 0, ovl |-> FALSE, old |-> <<>>,
            cont |-> "", args |-> <<>>, raw |-> <<>>]

NoCall == [op |-> "", self |-> MapEntity, arg |-> 0, err |-> "",
           val |-> <<>>]

\* The step ends no call.
Quiet == returned' = NoCall /\ UNCHANGED hist

Entities == {MapEntity} \cup Objs

\* The positions inside the client property (lines 158-162).
ClientPcs == {"c_host", "c_port", "c_new", "c_ret"}

MapPcs == {"m_fetch", "m_loop", "m_add", "m_dead", "m_kill", "m_mark", "m_del", "m_ret"}

InMapPass(t) == pc[t] \in MapPcs

BrokerPcs == {"b_get", "b_host", "b_port"}

\* Thread t is inside Broker._configure of the Broker o.
InBrokerPass(t, o) == pc[t] \in BrokerPcs /\ frame[t].self = o

(* ------------------------------ Init ----------------------------------- *)

Init ==
    /\ rootExists \in BOOLEAN
    /\ nodes \in UNION {[S -> {FirstData}] : S \in SUBSET ChildNames}
    /\ (~rootExists => DOMAIN nodes = {})
    /\ changes = 0
    /\ armed = [e \in Entities |-> 0]
    /\ fired = [e \in Entities |-> 0]
    /\ brokers = EmptyMap
    /\ heap = <<>>
    /\ configured = [e \in Entities |-> "Unconfigured"]
    /\ pc = [t \in Threads |-> "idle"]
    /\ frame = [t \in Threads |-> NoFrame]
    /\ returned = NoCall
    /\ hist = [passes |-> [e \in Entities |-> 0], lost |-> {}]

(* ---------------------- the coordination service ----------------------- *)

\* The path of a broker's data node below /brokers/ids (line 130).
NodeOf(o) == FormatInt(heap[o].id)

\* One-shot watches: a change fires every watch armed on the path.
FireWatches(E) ==
    /\ armed' = [e \in Entities |-> IF e \in E THEN 0 ELSE armed[e]]
    /\ fired' = [e \in Entities |-> IF e \in E THEN fired[e] + armed[e] ELSE fired[e]]

WatchersOf(name) == {o \in 1..Len(heap) : NodeOf(o) = name}

Restrict(f, S) == [k \in S |-> f[k]]

Extend(f, k, v) == [x \in DOMAIN f \cup {k} |-> IF x = k THEN v ELSE f[x]]

\* /brokers/ids is created (the cluster is bootstrapped).
ZkCreateRoot ==
    /\ changes < MaxChanges
    /\ ~rootExists
    /\ rootExists' = TRUE
    /\ changes' = changes + 1
    /\ UNCHANGED <<nodes, armed, fired, brokers, heap, configured, pc, frame>>
    /\ Quiet

\* /brokers/ids is deleted; ZooKeeper deletes only a node without children.
ZkDeleteRoot ==
    /\ changes < MaxChanges
    /\ rootExists
    /\ DOMAIN nodes = {}
    /\ rootExists' = FALSE
    /\ changes' = changes + 1
    /\ FireWatches({MapEntity})
    /\ UNCHANGED <<nodes, brokers, heap, configured, pc, frame>>
    /\ Quiet

\* A broker registers: the child `name` appears with value `data`.
ZkRegister(name, data) ==
    /\ changes < MaxChanges
    /\ rootExists
    /\ name \notin DOMAIN nodes
    /\ nodes' = Extend(nodes, name, data)
    /\ changes' = changes + 1
    /\ FireWatches({MapEntity})
    /\ UNCHANGED <<rootExists, brokers, heap, configured, pc, frame>>
    /\ Quiet

\* A broker goes away: the child `name` disappears.
ZkUnregister(name) ==
    /\ changes < MaxChanges
    /\ name \in DOMAIN nodes
    /\ nodes' = Restrict(nodes, DOMAIN nodes \ {name})
    /\ changes' = changes + 1
    /\ FireWatches({MapEntity} \cup WatchersOf(name))
    /\ UNCHANGED <<rootExists, brokers, heap, configured, pc, frame>>
    /\ Quiet

\* The value of the node `name` is replaced.
ZkSetData(name, data) ==
    /\ changes < MaxChanges
    /\ name \in DOMAIN nodes
    /\ nodes[name] # data
    /\ nodes' = [nodes EXCEPT ![name] = data]
    /\ changes' = changes + 1
    /\ FireWatches(WatchersOf(name))
    /\ UNCHANGED <<rootExists, brokers, heap, configured, pc, frame>>
    /\ Quiet

\* A successful read with watch=self._configure arms one more watch.
Arm(e) == armed' = [armed EXCEPT ![e] = @ + 1]

(* --------------------------- ends of a call ---------------------------- *)

\* The exceptions of a failed get_children or get.
FetchErrors == {"ImproperlyConfigured", "NoNodeException", "ZkError"}

\* The call of thread t ends with the exception err. A first configuration that
\* fails leaves the entity unconfigured.
Raise(t, err) ==
    /\ pc' = [pc EXCEPT ![t] = "idle"]
    /\ frame' = [frame EXCEPT ![t] = NoFrame]
    /\ returned' = [op |-> "_configure", self |-> frame[t].self,
                    arg |-> 0, err |-> err, val |-> <<>>]
    /\ configured' = IF t \in Callers
                     THEN [configured EXCEPT ![frame[t].self] = "Unconfigured"]
                     ELSE configured
    /\ hist' = IF t = ZkThread /\ err \in FetchErrors
               THEN [hist EXCEPT !.lost = @ \cup {frame[t].self}]
               ELSE hist

\* _configure returns. On the event thread that ends the callback; in a caller
\* the entity becomes configured and the accessor body runs next, at the place
\* the accessor was called from.
ConfigureReturns(t) ==
    IF t = ZkThread
    THEN /\ pc' = [pc EXCEPT ![t] = "idle"]
         /\ frame' = [frame EXCEPT ![t] = NoFrame]
         /\ returned' = [op |-> "_configure", self |-> frame[t].self,
                         arg |-> 0, err |-> "", val |-> <<>>]
         /\ hist' = [hist EXCEPT !.passes[frame[t].self] = IF @ < 2 THEN @ + 1 ELSE @]
         /\ UNCHANGED configured
    ELSE /\ pc' = [pc EXCEPT ![t] = IF frame[t].cont = "" THEN "method"
                                    ELSE frame[t].cont]
         /\ configured' = [configured EXCEPT ![frame[t].self] = "Configured"]
         /\ UNCHANGED frame
         /\ Quiet

(* ------------------------ BrokerMap._configure ------------------------- *)

\* Broker.__init__ (lines 114-121).
\* __client is not set by __init__; made counts the Clients created for the
\* object (history).
NewBroker(id) == [id |-> id, host |-> None, port |-> None, is_dead |-> FALSE,
                  client |-> None, made |-> 0]

\* Mutant: every pass creates a Broker for every child.
IsNewAlways(id) == TRUE

\* Line 42: if broker_id not in self.__brokers.
IsNew(id) == id \notin DOMAIN brokers

\* Mutant: the pass forgets the brokers that went away.
DeadSetNone(keys, alive) == {}

\* Line 48: dead = set(self.__brokers.keys()) - alive.
DeadSet(keys, alive) == keys \ alive

\* Thread t enters BrokerMap._configure. Passes that run at the same time are
\* remembered as overlapping.
EnterMapPass(t) ==
    /\ pc' = [pc EXCEPT ![t] = "m_fetch"]
    /\ frame' = [u \in Threads |->
                   IF u = t
                   THEN [NoFrame EXCEPT !.ovl = \E v \in Threads \ {t} : InMapPass(v)]
                   ELSE IF InMapPass(u) THEN [frame[u] EXCEPT !.ovl = TRUE]
                   ELSE frame[u]]

\* Mutant: a missing /brokers/ids is taken for a cluster without brokers.
MapFetchNoNodeEmpty(t) ==
    /\ pc[t] = "m_fetch"
    /\ ~rootExists
    /\ pc' = [pc EXCEPT ![t] = "m_loop"]
    /\ frame' = [frame EXCEPT ![t].before = brokers, ![t].n0 = Len(heap)]
    /\ UNCHANGED <<zkVars, armed, fired, brokers, heap, configured>>
    /\ Quiet

\* Lines 34-38: get_children fails because /brokers/ids does not exist.
MapFetchNoNode(t) ==
    /\ pc[t] = "m_fetch"
    /\ ~rootExists
    /\ Raise(t, "ImproperlyConfigured")
    /\ UNCHANGED <<zkVars, armed, fired, brokers, heap>>

\* Mutant: a failed get_children empties the map.
MapFetchFailsReset(t) ==
    /\ pc[t] = "m_fetch"
    /\ Raise(t, "ZkError")
    /\ brokers' = EmptyMap
    /\ UNCHANGED <<zkVars, armed, fired, heap>>

\* Line 35: get_children fails for another reason (connection loss, timeout).
MapFetchFails(t) ==
    /\ pc[t] = "m_fetch"
    /\ Raise(t, "ZkError")
    /\ UNCHANGED <<zkVars, armed, fired, brokers, heap>>

\* Mutant: the watch is not passed to get_children.
MapFetchNoWatch(t) ==
    /\ pc[t] = "m_fetch"
    /\ rootExists
    /\ pc' = [pc EXCEPT ![t] = "m_loop"]
    /\ frame' = [frame EXCEPT ![t].todo = {ParseInt(n) : n \in DOMAIN nodes},
                              ![t].snap = {ParseInt(n) : n \in DOMAIN nodes},
                              ![t].before = brokers,
                              ![t].n0 = Len(heap)]
    /\ UNCHANGED <<zkVars, armed, fired, brokers, heap, configured>>
    /\ Quiet

\* Lines 35, 40-41: get_children returns the child names and arms the watch;
\* map(int, broker_ids) converts them all before the loop starts.
MapFetch(t) ==
    /\ pc[t] = "m_fetch"
    /\ rootExists
    /\ Arm(MapEntity)
    /\ IF \A n \in DOMAIN nodes : IsInt(n)
       THEN /\ pc' = [pc EXCEPT ![t] = "m_loop"]
            /\ frame' = [frame EXCEPT ![t].todo = {ParseInt(n) : n \in DOMAIN nodes},
                                      ![t].snap = {ParseInt(n) : n \in DOMAIN nodes},
                                      ![t].before = brokers,
                                      ![t].n0 = Len(heap)]
            /\ UNCHANGED configured
            /\ Quiet
       ELSE Raise(t, "ValueError")
    /\ UNCHANGED <<zkVars, fired, brokers, heap>>

\* Mutant: alive.add is done for new brokers only (line 46 inside the if).
MapLoopAliveNewOnly(t) ==
    /\ pc[t] = "m_loop"
    /\ IF frame[t].todo = {}
       THEN /\ pc' = [pc EXCEPT ![t] = "m_dead"]
            /\ UNCHANGED frame
       ELSE \E id \in frame[t].todo :
              IF IsNew(id)
              THEN /\ pc' = [pc EXCEPT ![t] = "m_add"]
                   /\ frame' = [frame EXCEPT ![t].cur = id]
              ELSE /\ frame' = [frame EXCEPT ![t].todo = @ \ {id}]
                   /\ UNCHANGED pc
    /\ UNCHANGED <<zkVars, armed, fired, brokers, heap, configured>>
    /\ Quiet

\* Lines 41-42, 46: the next broker id; one already in the map is only noted alive.
MapLoop(t) ==
    /\ pc[t] = "m_loop"
    /\ IF frame[t].todo = {}
       THEN /\ pc' = [pc EXCEPT ![t] = "m_dead"]
            /\ UNCHANGED frame
       ELSE \E id \in frame[t].todo :
              IF IsNew(id)
              THEN /\ pc' = [pc EXCEPT ![t] = "m_add"]
                   /\ frame' = [frame EXCEPT ![t].cur = id]
              ELSE /\ frame' = [frame EXCEPT ![t].todo = @ \ {id},
                                             ![t].alive = @ \cup {id}]
                   /\ UNCHANGED pc
    /\ UNCHANGED <<zkVars, armed, fired, brokers, heap, configured>>
    /\ Quiet

\* Mutant: the Broker object of an id that was seen before is taken back into
\* the map and revived instead of a new one being created.
MapAddRecycle(t) ==
    /\ pc[t] = "m_add"
    /\ IF \E o \in 1..Len(heap) : heap[o].id = frame[t].cur
       THEN LET o == CHOOSE o \in 1..Len(heap) : heap[o].id = frame[t].cur IN
              /\ heap' = [heap EXCEPT ![o].is_dead = FALSE]
              /\ brokers' = Extend(brokers, frame[t].cur, o)
       ELSE /\ Len(heap) < MaxObj
            /\ heap' = Append(heap, NewBroker(frame[t].cur))
            /\ brokers' = Extend(brokers, frame[t].cur, Len(heap) + 1)
    /\ frame' = [frame EXCEPT ![t].todo = @ \ {frame[t].cur},
                              ![t].alive = @ \cup {frame[t].cur},
                              ![t].cur = 0]
    /\ pc' = [pc EXCEPT ![t] = "m_loop"]
    /\ UNCHANGED <<zkVars, armed, fired, configured>>
    /\ Quiet

\* Mutant: the registry fetches the data of a Broker as it creates it.
MapAddEager(t) ==
    /\ pc[t] = "m_add"
    /\ Len(heap) < MaxObj
    /\ heap' = Append(heap,
                  IF FormatInt(frame[t].cur) \in DOMAIN nodes
                  THEN [NewBroker(frame[t].cur) EXCEPT
                          !.host = ParsedPair(nodes[FormatInt(frame[t].cur)])[1],
                          !.port = ParsedPair(nodes[FormatInt(frame[t].cur)])[2]]
                  ELSE NewBroker(frame[t].cur))
    /\ brokers' = Extend(brokers, frame[t].cur, Len(heap) + 1)
    /\ frame' = [frame EXCEPT ![t].todo = @ \ {frame[t].cur},
                              ![t].alive = @ \cup {frame[t].cur},
                              ![t].cur = 0]
    /\ pc' = [pc EXCEPT ![t] = "m_loop"]
    /\ UNCHANGED <<zkVars, armed, fired, configured>>
    /\ Quiet

\* Lines 43-46: a new Broker is created and stored under its id.
MapAdd(t) ==
    /\ pc[t] = "m_add"
    /\ Len(heap) < MaxObj
    /\ heap' = Append(heap, NewBroker(frame[t].cur))
    /\ brokers' = Extend(brokers, frame[t].cur, Len(heap) + 1)
    /\ frame' = [frame EXCEPT ![t].todo = @ \ {frame[t].cur},
                              ![t].alive = @ \cup {frame[t].cur},
                              ![t].cur = 0]
    /\ pc' = [pc EXCEPT ![t] = "m_loop"]
    /\ UNCHANGED <<zkVars, armed, fired, configured>>
    /\ Quiet

\* Line 48.
MapDead(t) ==
    /\ pc[t] = "m_dead"
    /\ frame' = [frame EXCEPT ![t].dead = DeadSet(DOMAIN brokers, frame[t].alive)]
    /\ pc' = [pc EXCEPT ![t] = "m_kill"]
    /\ UNCHANGED <<zkVars, armed, fired, brokers, heap, configured>>
    /\ Quiet

\* Lines 49-50: the next dead id is looked up; KeyError when it is gone.
MapKill(t) ==
    /\ pc[t] = "m_kill"
    /\ IF frame[t].dead = {}
       THEN /\ pc' = [pc EXCEPT ![t] = "m_ret"]
            /\ UNCHANGED <<frame, configured>>
            /\ Quiet
       ELSE \E id \in frame[t].dead :
              IF id \in DOMAIN brokers
              THEN /\ pc' = [pc EXCEPT ![t] = "m_mark"]
                   /\ frame' = [frame EXCEPT ![t].dead = @ \ {id},
                                             ![t].obj = brokers[id]]
                   /\ UNCHANGED configured
                   /\ Quiet
              ELSE Raise(t, "KeyError")
    /\ UNCHANGED <<zkVars, armed, fired, brokers, heap>>

\* Line 52: broker.is_dead = True.
MapMark(t) ==
    /\ pc[t] = "m_mark"
    /\ heap' = [heap EXCEPT ![frame[t].obj].is_dead = TRUE]
    /\ pc' = [pc EXCEPT ![t] = "m_del"]
    /\ UNCHANGED <<zkVars, armed, fired, brokers, configured, frame>>
    /\ Quiet

\* Mutant: the dead Broker is marked and left in the map.
MapDelKeeps(t) ==
    /\ pc[t] = "m_del"
    /\ pc' = [pc EXCEPT ![t] = "m_kill"]
    /\ frame' = [frame EXCEPT ![t].obj = 0]
    /\ UNCHANGED <<zkVars, armed, fired, brokers, heap, configured>>
    /\ Quiet

\* Line 53: del self.__brokers[broker.id]; KeyError when it is gone.
MapDel(t) ==
    /\ pc[t] = "m_del"
    /\ LET id == heap[frame[t].obj].id IN
         IF id \in DOMAIN brokers
         THEN /\ brokers' = Restrict(brokers, DOMAIN brokers \ {id})
              /\ pc' = [pc EXCEPT ![t] = "m_kill"]
              /\ frame' = [frame EXCEPT ![t].obj = 0]
              /\ UNCHANGED configured
              /\ Quiet
         ELSE /\ Raise(t, "KeyError")
              /\ UNCHANGED brokers
    /\ UNCHANGED <<zkVars, armed, fired, heap>>

\* BrokerMap._configure returns.
MapReturn(t) ==
    /\ pc[t] = "m_ret"
    /\ ConfigureReturns(t)
    /\ UNCHANGED <<zkVars, armed, fired, brokers, heap>>

(* -------------------------- Broker._configure -------------------------- *)

\* Thread t enters Broker._configure of the Broker o. Passes of one Broker that
\* run at the same time are remembered as overlapping.
EnterBrokerPass(t, o) ==
    /\ pc' = [pc EXCEPT ![t] = "b_get"]
    /\ frame' = [u \in Threads |->
                   IF u = t
                   THEN [NoFrame EXCEPT
                           !.self = o,
                           !.old = <<heap[o].host, heap[o].port>>,
                           !.cont = IF pc[t] \in ClientPcs THEN pc[t] ELSE "",
                           !.ovl = \E v \in Threads \ {t} : InBrokerPass(v, o)]
                   ELSE IF InBrokerPass(u, o) THEN [frame[u] EXCEPT !.ovl = TRUE]
                   ELSE frame[u]]

\* Line 131: zookeeper.get fails: the node does not exist.
BrokerGetNoNode(t) ==
    /\ pc[t] = "b_get"
    /\ NodeOf(frame[t].self) \notin DOMAIN nodes
    /\ Raise(t, "NoNodeException")
    /\ UNCHANGED <<zkVars, armed, fired, brokers, heap>>

\* Line 131: zookeeper.get fails for another reason (connection loss, timeout).
BrokerGetFails(t) ==
    /\ pc[t] = "b_get"
    /\ Raise(t, "ZkError")
    /\ UNCHANGED <<zkVars, armed, fired, brokers, heap>>

\* Line 131: zookeeper.get returns the node value and arms the watch.
BrokerGet(t) ==
    /\ pc[t] = "b_get"
    /\ NodeOf(frame[t].self) \in DOMAIN nodes
    /\ Arm(frame[t].self)
    /\ frame' = [frame EXCEPT ![t].data = nodes[NodeOf(frame[t].self)],
                              ![t].raw = nodes[NodeOf(frame[t].self)]]
    /\ pc' = [pc EXCEPT ![t] = "b_host"]
    /\ UNCHANGED <<zkVars, fired, brokers, heap, configured>>
    /\ Quiet

\* Line 132: creator, self.__host, port = data.split(':'). Unpacking anything
\* but three fields raises ValueError before a target is assigned.
BrokerUnpack(t) ==
    /\ pc[t] = "b_host"
    /\ LET fields == Split(frame[t].data, ":") IN
         IF Len(fields) = 3
         THEN /\ heap' = [heap EXCEPT ![frame[t].self].host = Some(fields[2])]
              /\ frame' = [frame EXCEPT ![t].data = fields[3]]
              /\ pc' = [pc EXCEPT ![t] = "b_port"]
              /\ UNCHANGED configured
              /\ Quiet
         ELSE /\ Raise(t, "ValueError")
              /\ UNCHANGED heap
    /\ UNCHANGED <<zkVars, armed, fired, brokers>>

\* Line 133: self.__port = int(port); ValueError when port is no integer.
BrokerPort(t) ==
    /\ pc[t] = "b_port"
    /\ IF IsInt(frame[t].data)
       THEN /\ heap' = [heap EXCEPT ![frame[t].self].port = Some(ParseInt(frame[t].data))]
            /\ ConfigureReturns(t)
       ELSE /\ Raise(t, "ValueError")
            /\ UNCHANGED heap
    /\ UNCHANGED <<zkVars, armed, fired, brokers>>

(* ------------------------------ accessors ------------------------------ *)

MapOps == {"len", "iter", "get", "keys", "values", "items"}
BrokerOps == {"host", "port"}

\* Mutant: get answers an absent id with None instead of raising.
MethodGetDefault(e, op, arg) ==
    CASE op = "len"    -> [err |-> "", val |-> Cardinality(DOMAIN brokers)]
      [] op = "get"    -> IF arg \in DOMAIN brokers
                          THEN [err |-> "", val |-> brokers[arg]]
                          ELSE [err |-> "", val |-> None]
      [] OTHER         -> [err |-> "", val |-> DOMAIN brokers]

\* The bodies of the accessors: lines 62, 69, 82, 89, 96, 103, 141, 149.
Method(e, op, arg) ==
    CASE op = "len"    -> [err |-> "", val |-> Cardinality(DOMAIN brokers)]
      [] op = "iter"   -> [err |-> "", val |-> DOMAIN brokers]
      [] op = "keys"   -> [err |-> "", val |-> DOMAIN brokers]
      [] op = "get"    -> IF arg \in DOMAIN brokers
                          THEN [err |-> "", val |-> brokers[arg]]
                          ELSE [err |-> "KeyError", val |-> <<>>]
      [] op = "values" -> [err |-> "", val |-> {brokers[k] : k \in DOMAIN brokers}]
      [] op = "items"  -> [err |-> "", val |-> {<<k, brokers[k]>> : k \in DOMAIN brokers}]
      [] op = "host"   -> [err |-> "", val |-> heap[e].host]
      [] op = "port"   -> [err |-> "", val |-> heap[e].port]

Returns(t, e, op, arg) ==
    /\ returned' = [op |-> op, self |-> e, arg |-> arg,
                    err |-> Method(e, op, arg).err, val |-> Method(e, op, arg).val]
    /\ pc' = [pc EXCEPT ![t] = "idle"]
    /\ frame' = [frame EXCEPT ![t] = NoFrame]
    /\ UNCHANGED hist

\* requires_configuration finds the entity unconfigured: this thread runs the
\* first configuration.
Configure(t, e) ==
    /\ configured' = [configured EXCEPT ![e] = "Configuring"]
    /\ IF e = MapEntity THEN EnterMapPass(t) ELSE EnterBrokerPass(t, e)
    /\ Quiet

\* requires_configuration finds another thread running the first configuration.
Wait(t, e) ==
    /\ pc' = [pc EXCEPT ![t] = "wait"]
    /\ frame' = [frame EXCEPT ![t] = [NoFrame EXCEPT !.self = e]]
    /\ UNCHANGED configured
    /\ Quiet

\* Mutant: a caller that finds a configuration under way starts its own.
DispatchNoWait(t, e, op, arg) ==
    IF configured[e] = "Configured"
    THEN Returns(t, e, op, arg) /\ UNCHANGED configured
    ELSE Configure(t, e)

\* requires_configuration: what a call of the accessor op does according to the
\* entity's state. The accessor and its argument play no part before its body
\* runs, so a call that has to configure first is the same for every accessor.
Dispatch(t, e, op, arg) ==
    CASE configured[e] = "Configured"   -> Returns(t, e, op, arg) /\ UNCHANGED configured
      [] configured[e] = "Unconfigured" -> Configure(t, e)
      [] configured[e] = "Configuring"  -> Wait(t, e)

\* Bound on the watches of a Broker: a caller starts a first configuration of
\* a Broker that has fewer than MaxWatch watches outstanding.
WatchRoom(e) ==
    (e # MapEntity /\ configured[e] = "Unconfigured")
        => armed[e] + fired[e] < MaxWatch

OpsOf(e) == IF e = MapEntity THEN MapOps ELSE BrokerOps

ArgsOf(op) == IF op = "get" THEN BrokerIds ELSE {0}

\* A caller calls an accessor of the BrokerMap.
CallMap(t, op, arg) ==
    /\ pc[t] = "idle"
    /\ Dispatch(t, MapEntity, op, arg)
    /\ UNCHANGED <<zkVars, armed, fired, brokers, heap>>

\* A caller reads host or port of a Broker it holds a reference to.
CallBroker(t, o, op) ==
    /\ pc[t] = "idle"
    /\ o \in 1..Len(heap)
    /\ WatchRoom(o)
    /\ Dispatch(t, o, op, 0)
    /\ UNCHANGED <<zkVars, armed, fired, brokers, heap>>

\* A caller reads host or port again after a first configuration of the Broker
\* that failed and left its watch behind; one such watch more than MaxWatch is
\* followed.
RetryBroker(t, o, op) ==
    /\ pc[t] = "idle"
    /\ o \in 1..Len(heap)
    /\ configured[o] = "Unconfigured"
    /\ armed[o] + fired[o] >= 1
    /\ armed[o] + fired[o] <= MaxWatch
    /\ Dispatch(t, o, op, 0)
    /\ UNCHANGED <<zkVars, armed, fired, brokers, heap>>

\* A caller that waited for another thread's first configuration goes on.
WaitEnds(t, Ops) ==
    /\ pc[t] = "wait"
    /\ configured[frame[t].self] # "Configuring"
    /\ WatchRoom(frame[t].self)
    /\ \E op \in OpsOf(frame[t].self) \cap Ops : \E arg \in ArgsOf(op) :
           Dispatch(t, frame[t].self, op, arg)
    /\ UNCHANGED <<zkVars, armed, fired, brokers, heap>>

\* The accessor body runs after the first configuration.
MethodBody(t, Ops) ==
    /\ pc[t] = "method"
    /\ \E op \in OpsOf(frame[t].self) \cap Ops : \E arg \in ArgsOf(op) :
           Returns(t, frame[t].self, op, arg)
    /\ UNCHANGED <<zkVars, armed, fired, brokers, heap, configured>>

(* ------------------------------- client -------------------------------- *)

\* Lines 158-159: try: return self.__client. The attribute is missing until the
\* first assignment: AttributeError leads to line 161.
ClientTry(t, o) ==
    /\ pc[t] = "idle"
    /\ o \in 1..Len(heap)
    /\ IF heap[o].client # None
       THEN /\ returned' = [op |-> "client", self |-> o, arg |-> 0, err |-> "",
                            val |-> heap[o].client]
            /\ UNCHANGED <<pc, frame, hist>>
       ELSE /\ pc' = [pc EXCEPT ![t] = "c_host"]
            /\ frame' = [frame EXCEPT ![t] = [NoFrame EXCEPT !.self = o]]
            /\ Quiet
    /\ UNCHANGED <<zkVars, armed, fired, brokers, heap, configured>>

\* Line 161: the arguments self.host and self.port are evaluated in turn, each
\* through requires_configuration: an unconfigured Broker is configured first,
\* and the caller waits while another thread configures it.
ClientArg(t) ==
    /\ pc[t] \in {"c_host", "c_port"}
    /\ LET o == frame[t].self IN
         CASE configured[o] = "Configured" ->
                /\ frame' = [frame EXCEPT
                                ![t].args = Append(@, IF pc[t] = "c_host"
                                                      THEN Method(o, "host", 0).val
                                                      ELSE Method(o, "port", 0).val),
                                ![t].cont = ""]
                /\ pc' = [pc EXCEPT ![t] = IF pc[t] = "c_host" THEN "c_port" ELSE "c_new"]
                /\ UNCHANGED configured
                /\ Quiet
           [] configured[o] = "Unconfigured" -> WatchRoom(o) /\ Configure(t, o)
           [] configured[o] = "Configuring" -> FALSE
    /\ UNCHANGED <<zkVars, armed, fired, brokers, heap>>

\* Line 161: Client(host, port) is created and assigned to self.__client.
ClientNew(t) ==
    /\ pc[t] = "c_new"
    /\ heap' = [heap EXCEPT
                  ![frame[t].self].client = Some([n |-> heap[frame[t].self].made + 1,
                                                  host |-> frame[t].args[1],
                                                  port |-> frame[t].args[2]]),
                  ![frame[t].self].made = @ + 1]
    /\ pc' = [pc EXCEPT ![t] = "c_ret"]
    /\ UNCHANGED <<zkVars, armed, fired, brokers, configured, frame>>
    /\ Quiet

\* Line 162: return self.__client.
ClientRet(t) ==
    /\ pc[t] = "c_ret"
    /\ returned' = [op |-> "client", self |-> frame[t].self, arg |-> 0, err |-> "",
                    val |-> heap[frame[t].self].client]
    /\ pc' = [pc EXCEPT ![t] = "idle"]
    /\ frame' = [frame EXCEPT ![t] = NoFrame]
    /\ UNCHANGED <<zkVars, armed, fired, brokers, heap, configured, hist>>

(* ---------------------------- watch delivery --------------------------- *)

\* The event thread delivers a fired watch: it calls the entity's _configure.
Deliver(e) ==
    /\ pc[ZkThread] = "idle"
    /\ fired[e] > 0
    /\ fired' = [fired EXCEPT ![e] = @ - 1]
    /\ IF e = MapEntity
       THEN EnterMapPass(ZkThread)
       ELSE EnterBrokerPass(ZkThread, e)
    /\ UNCHANGED <<zkVars, armed, brokers, heap, configured>>
    /\ Quiet

(* ------------------------------- Next ---------------------------------- *)

\* What the coordination service may do to the children in Names, writing the
\* values in Data.
ZkNext(Names, Data) ==
    \/ ZkCreateRoot
    \/ ZkDeleteRoot
    \/ \E name \in Names, data \in Data : ZkRegister(name, data)
    \/ \E name \in Names : ZkUnregister(name)
    \/ \E name \in Names, data \in Data : ZkSetData(name, data)

MapNext(t) ==
    \/ MapFetchNoNode(t)
    \/ MapFetchFails(t)
    \/ MapFetch(t)
    \/ MapLoop(t)
    \/ MapAdd(t)
    \/ MapDead(t)
    \/ MapKill(t)
    \/ MapMark(t)
    \/ MapDel(t)
    \/ MapReturn(t)

BrokerNext(t) ==
    \/ BrokerGetNoNode(t)
    \/ BrokerGetFails(t)
    \/ BrokerGet(t)
    \/ BrokerUnpack(t)
    \/ BrokerPort(t)

MapCalls(t, Ops) ==
    \E op \in MapOps \cap Ops : \E arg \in ArgsOf(op) : CallMap(t, op, arg)

BrokerCalls(t) ==
    \E o \in Objs, op \in BrokerOps : CallBroker(t, o, op)

\* The caller whose calls run beside the event thread.
Reader == 1

\* The accessors the caller uses beside the event thread.
ReaderOps == {"len", "keys", "get"}

\* The registry alone: brokers come and go, the event thread and a caller run
\* BrokerMap._configure, and the caller uses the accessors of the map.
NextMap ==
    \/ ZkCreateRoot
    \/ ZkDeleteRoot
    \/ \E name \in ChildNames : ZkRegister(name, FirstData)
    \/ \E name \in ChildNames : ZkUnregister(name)
    \/ Deliver(MapEntity)
    \/ \E t \in {ZkThread, Reader} : MapNext(t)
    \/ MapCalls(Reader, ReaderOps)
    \/ MethodBody(Reader, ReaderOps)

SpecMap == Init /\ [][NextMap]_vars

\* The registry and its brokers: in addition the node values change, and the
\* event thread and the caller run Broker._configure.
FirstName == FormatInt(9)

InitOne == Init /\ DOMAIN nodes \subseteq {FirstName}

Next ==
    \/ ZkNext({FirstName}, DataValues)
    \/ \E e \in Entities : Deliver(e)
    \/ \E t \in {ZkThread, Reader} : MapNext(t) \/ BrokerNext(t)
    \/ MapCalls(Reader, {"get"})
    \/ BrokerCalls(Reader)
    \/ MethodBody(Reader, {"get"} \cup BrokerOps)

Spec == InitOne /\ [][Next]_vars

\* First access by several callers at once, before any watch is delivered.
\* The map is empty until the first configuration has run, so that no pass
\* finds a dead broker: lines 50-53 cannot run here.
NextFirst ==
    \/ ZkCreateRoot
    \/ \E name \in ChildNames : ZkRegister(name, FirstData)
    \/ \E name \in ChildNames : ZkUnregister(name)
    \/ \E t \in Callers :
         \/ MapFetchNoNode(t)
         \/ MapFetchFails(t)
         \/ MapFetch(t)
         \/ MapLoop(t)
         \/ MapAdd(t)
         \/ MapDead(t)
         \/ MapKill(t)
         \/ MapReturn(t)
    \/ \E t \in Callers : MapCalls(t, MapOps) \/ WaitEnds(t, MapOps) \/ MethodBody(t, MapOps)

SpecFirst == Init /\ [][NextFirst]_vars

\* A pass of BrokerMap._configure whose get_children does not lose the
\* connection.
LivePass(t) ==
    \/ MapFetchNoNode(t)
    \/ MapFetch(t)
    \/ MapLoop(t)
    \/ MapAdd(t)
    \/ MapDead(t)
    \/ MapKill(t)
    \/ MapMark(t)
    \/ MapDel(t)
    \/ MapReturn(t)

\* The registry under a fair schedule: /brokers/ids is not deleted and the
\* reads of the children do not fail for want of a connection; every fired
\* watch is delivered and every thread inside a pass or an accessor goes on.
NextLive ==
    \/ ZkCreateRoot
    \/ \E name \in ChildNames : ZkRegister(name, FirstData)
    \/ \E name \in ChildNames : ZkUnregister(name)
    \/ Deliver(MapEntity)
    \/ \E t \in {ZkThread, Reader} : LivePass(t)
    \/ MapCalls(Reader, {"keys"})
    \/ MethodBody(Reader, {"keys"})

SpecLive ==
    /\ Init
    /\ [][NextLive]_vars
    /\ WF_vars(Deliver(MapEntity))
    /\ \A t \in {ZkThread, Reader} : WF_vars(LivePass(t))
    /\ WF_vars(MethodBody(Reader, {"keys"}))

\* A Broker whose first configuration fails and is tried again: the node value
\* changes between well-formed and malformed, a caller reads host and port and
\* reads them again after a failure.
NextRetry ==
    \/ \E data \in DataValues : ZkSetData(FirstName, data)
    \/ \E o \in Objs : Deliver(o)
    \/ MapCalls(Reader, {"get"})
    \/ MapFetchNoNode(Reader)
    \/ MapFetchFails(Reader)
    \/ MapFetch(Reader)
    \/ MapLoop(Reader)
    \/ MapAdd(Reader)
    \/ MapDead(Reader)
    \/ MapKill(Reader)
    \/ MapReturn(Reader)
    \/ BrokerCalls(Reader)
    \/ \E o \in Objs, op \in BrokerOps : RetryBroker(Reader, o, op)
    \/ MethodBody(Reader, {"get"} \cup BrokerOps)
    \/ \E t \in {ZkThread, Reader} :
         \/ BrokerGetFails(t)
         \/ BrokerGet(t)
         \/ BrokerUnpack(t)
         \/ BrokerPort(t)

SpecRetry == InitOne /\ [][NextRetry]_vars

ClientNext(t) ==
    \/ \E o \in Objs : ClientTry(t, o)
    \/ ClientArg(t)
    \/ ClientNew(t)
    \/ ClientRet(t)

\* The callers that ask for clients: the reader and one more, which is what a
\* concurrent first access takes.
ClientCallers == {t \in Callers : t <= Reader + 1}

\* The clients of the brokers: a caller configures the map and reads host and
\* port, the callers ask the Brokers for their client, and the node values
\* change meanwhile.
NextClient ==
    \/ \E data \in GoodData : ZkSetData(FirstName, data)
    \/ \E o \in Objs : Deliver(o)
    \/ MapCalls(Reader, {"get"})
    \/ BrokerCalls(Reader)
    \/ MethodBody(Reader, {"get"} \cup BrokerOps)
    \/ MapFetchNoNode(Reader)
    \/ MapFetchFails(Reader)
    \/ MapFetch(Reader)
    \/ MapLoop(Reader)
    \/ MapAdd(Reader)
    \/ MapDead(Reader)
    \/ MapKill(Reader)
    \/ MapReturn(Reader)
    \/ \E t \in Threads :
         \/ BrokerGetFails(t)
         \/ BrokerGet(t)
         \/ BrokerUnpack(t)
         \/ BrokerPort(t)
    \/ \E t \in ClientCallers : ClientNext(t)

SpecClient == InitOne /\ [][NextClient]_vars

(* ------------------------------ claims --------------------------------- *)

Range(f) == {f[k] : k \in DOMAIN f}

\* The pass of thread t has read the children and not yet returned.
Fetched(t) == pc[t] \in MapPcs \ {"m_fetch"}

\* What one pass run alone has to leave behind, given the map `before` it, the
\* number n0 of objects that existed and the child ids `snap` it read.
DiffApplied(before, n0, snap) ==
    /\ DOMAIN brokers = snap
    /\ \A k \in snap \ DOMAIN before :
         /\ brokers[k] > n0
         /\ heap[brokers[k]] = NewBroker(k)
    /\ \A k \in snap \cap DOMAIN before : brokers[k] = before[k]
    /\ \A k \in DOMAIN before \ snap : heap[before[k]].is_dead

\* C1: when a pass of BrokerMap._configure that ran alone returns, the keys of
\* the map are the child ids it read; an id that was not in the map before maps
\* to a Broker created by this pass, an id in both maps to the object it mapped
\* to before, and the object of an id that is gone is dead and out of the map.
C1_DiffCorrect ==
    \A t \in Threads :
        (pc[t] = "m_ret" /\ ~frame[t].ovl)
            => DiffApplied(frame[t].before, frame[t].n0, frame[t].snap)

\* A pass that ran alone returns after it both added and removed a broker.
C1_Witness ==
    \E t \in Threads :
        /\ pc[t] = "m_ret" /\ ~frame[t].ovl
        /\ frame[t].snap \ DOMAIN frame[t].before # {}
        /\ DOMAIN frame[t].before \ frame[t].snap # {}

\* The event thread is in the callback of entity e and has not read yet.
Delivering(e) ==
    \/ e = MapEntity /\ pc[ZkThread] = "m_fetch"
    \/ e # MapEntity /\ pc[ZkThread] = "b_get" /\ frame[ZkThread].self = e

\* The next change of e's path leads to a pass of e, or a pass is on its way.
WatchAlive(e) == armed[e] + fired[e] >= 1 \/ Delivering(e)

C2_WitnessBroker ==
    \E o \in 1..Len(heap) :
        /\ hist.passes[o] = 2
        /\ o \notin hist.lost
        /\ armed[o] = 1
        /\ NodeOf(o) \in DOMAIN nodes
        /\ Split(nodes[NodeOf(o)], ":")[2] = heap[o].host[1]

\* Some pass of BrokerMap._configure in progress overlaps another one.
Overlap == \E t \in Threads : InMapPass(t) /\ frame[t].ovl

BrokerRaises(t, err) ==
    /\ pc[t] \in BrokerPcs
    /\ pc'[t] = "idle"
    /\ returned'.err = err

\* C4: a pass of Broker._configure that ends in a ValueError, because the node
\* value has not three fields or its port is no integer, leaves host and port
\* of the Broker as they were when the pass began.
C4_ParseFailureKeepsBoth ==
    [][ \A t \in Threads :
          BrokerRaises(t, "ValueError")
            => /\ heap'[frame[t].self].host = frame[t].old[1]
               /\ heap'[frame[t].self].port = frame[t].old[2]
      ]_vars

\* C5: while /brokers/ids does not exist the map does not become configured:
\* the get_children of a caller's first configuration ends the accessor call
\* with ImproperlyConfigured (or with the error of a failed connection), map
\* and brokers are left as they were, and no accessor, len included, returns a
\* result unless a configuration found the path.
C5_MissingRoot ==
    /\ [](/\ ~rootExists => configured[MapEntity] # "Configured"
          /\ returned.op \in MapOps => rootExists /\ configured[MapEntity] = "Configured"
          /\ returned.err = "ImproperlyConfigured"
                => ~rootExists /\ configured[MapEntity] = "Unconfigured")
    /\ [][ /\ returned'.err = "ImproperlyConfigured"
                => brokers' = brokers /\ heap' = heap
           /\ \A t \in Callers :
                (pc[t] = "m_fetch" /\ ~rootExists /\ pc'[t] # "m_fetch")
                    => /\ pc'[t] = "idle"
                       /\ returned'.err \in {"ImproperlyConfigured", "ZkError"}
         ]_vars

\* An accessor called while /brokers/ids is missing has raised ImproperlyConfigured.
C5_Witness ==
    /\ returned.err = "ImproperlyConfigured"
    /\ returned.self = MapEntity
    /\ ~rootExists
    /\ configured[MapEntity] = "Unconfigured"

\* C6: a reader never sees a partly applied diff: the keys it gets while a pass
\* is under way are those before the pass or the child ids the pass read, and
\* the Broker that get returns is not dead.
C6_AtomicDiff ==
    /\ (returned.op = "keys") =>
          \A t \in Threads :
              (Fetched(t) /\ ~frame[t].ovl)
                  => returned.val \in {DOMAIN frame[t].before, frame[t].snap}
    /\ (returned.op = "get" /\ returned.err = "") => ~heap[returned.val].is_dead

\* C7: of the callers that use a map never configured before, at most one is
\* inside BrokerMap._configure at a time and at most one get_children of theirs
\* succeeds; a caller that arrives during that pass waits until it is over; an
\* accessor returns only once the map is configured and no pass is under way;
\* and once the map is configured no caller reads the children again and the
\* map stays as it is, so that all callers are given the same members.
C7_FirstAccessOnce ==
    /\ [](/\ Cardinality({t \in Callers : InMapPass(t)}) <= 1
          /\ armed[MapEntity] + fired[MapEntity] <= 1
          /\ (\E t \in Callers : InMapPass(t)) => configured[MapEntity] = "Configuring"
          /\ returned.op \in MapOps
                => /\ configured[MapEntity] = "Configured"
                   /\ \A t \in Callers : ~InMapPass(t))
    /\ [][ /\ configured[MapEntity] = "Configured"
                => /\ configured'[MapEntity] = "Configured"
                   /\ brokers' = brokers
                   /\ armed'[MapEntity] + fired'[MapEntity]
                          = armed[MapEntity] + fired[MapEntity]
           /\ \A t \in Callers :
                (pc[t] = "wait" /\ configured[MapEntity] = "Configuring")
                    => pc'[t] = "wait"
         ]_vars

\* One caller has been given the keys of the configured map while another one,
\* which arrived during the first configuration, has waited for its end.
C7_Witness ==
    /\ returned.op = "keys" /\ returned.val # {}
    /\ armed[MapEntity] + fired[MapEntity] = 1
    /\ \E t \in Callers : pc[t] = "wait"

\* The registry has marked the object dead and taken it out of the map.
Evicted(o) == heap[o].is_dead /\ o \notin Range(brokers)

\* C8: once a Broker is dead and out of the map, no step changes its host or
\* port or puts it back into the map.
C8_DeadFrozen ==
    [][ \A o \in 1..Len(heap) :
          Evicted(o) => /\ heap'[o].host = heap[o].host
                        /\ heap'[o].port = heap[o].port
                        /\ o \notin Range(brokers')
      ]_vars

\* Thread t is about to read from the coordination service.
AtFetch(t) == pc[t] \in {"m_fetch", "b_get"}

\* C9: a pass whose get_children or get fails ends there with the error, and
\* neither that step nor the entry into the pass changes the map, a Broker's
\* is_dead, host or port; a caller's entity is unconfigured again, as it was.
C9_FetchFailureKeepsState ==
    [][ /\ returned'.err \in FetchErrors
            => /\ brokers' = brokers /\ heap' = heap
               /\ \E t \in Threads :
                    /\ AtFetch(t) /\ pc'[t] = "idle"
                    /\ returned'.self = frame[t].self
                    /\ t \in Callers => configured'[frame[t].self] = "Unconfigured"
        /\ \A t \in Threads :
             (~AtFetch(t) /\ AtFetch(t)') => brokers' = brokers /\ heap' = heap
      ]_vars

\* The callback of a map that holds a broker has failed to read the children.
C9_Witness ==
    /\ returned.err \in FetchErrors
    /\ returned.self = MapEntity
    /\ DOMAIN brokers # {}
    /\ configured[MapEntity] = "Configured"

\* The callback of a broker that has host and port has failed to read its node.
C9_WitnessBroker ==
    /\ returned.err \in FetchErrors
    /\ returned.self # MapEntity
    /\ heap[returned.self].host # None
    /\ heap[returned.self].port # None

\* C10: get(id) is answered on a configured map only; it returns the Broker the
\* map holds under id and raises KeyError, which is not the error of a map that
\* cannot be configured, when the map holds none; the call that raises KeyError
\* changes neither the map nor a Broker nor the configured state.
C10_Lookup ==
    /\ [](returned.op = "get" =>
            /\ configured[MapEntity] = "Configured"
            /\ returned.arg \in DOMAIN brokers
                  => returned.err = "" /\ returned.val = brokers[returned.arg]
            /\ returned.arg \notin DOMAIN brokers
                  => returned.err = "KeyError" /\ returned.err # "ImproperlyConfigured")
    /\ [][ (returned'.op = "get" /\ returned'.err = "KeyError")
              => /\ brokers' = brokers /\ heap' = heap
                 /\ configured'[MapEntity] = "Configured"
         ]_vars

\* get has raised KeyError for the id of a broker that was a member and is dead.
C10_Witness ==
    /\ returned.op = "get" /\ returned.err = "KeyError"
    /\ \E o \in 1..Len(heap) : heap[o].id = returned.arg /\ heap[o].is_dead

\* C11: for each Broker at most one Client is ever created.
C11_OneClient == \A o \in 1..Len(heap) : heap[o].made <= 1

\* Thread t completes Broker._configure in this step.
BrokerCompletes(t) == pc[t] = "b_port" /\ IsInt(frame[t].data)

\* C12: a pass run again on an unchanged remote state changes nothing. A pass of
\* BrokerMap._configure that runs alone and reads as children the keys the
\* map already has (what the pass before it left) creates no Broker, marks
\* none dead and returns with the map as it found it; a pass of
\* Broker._configure that runs alone and reads a node value that parses to the
\* host and port the Broker already has returns with the same host and port.
C12_Idempotent ==
    /\ [](\A t \in Threads :
            (pc[t] = "m_ret" /\ ~frame[t].ovl /\ frame[t].snap = DOMAIN frame[t].before)
                => brokers = frame[t].before /\ Len(heap) = frame[t].n0)
    /\ [][ /\ \A t \in Threads :
                (Fetched(t) /\ ~frame[t].ovl /\ frame[t].snap = DOMAIN frame[t].before)
                    => /\ brokers' = brokers
                       /\ Len(heap') = Len(heap)
                       /\ \A o \in 1..Len(heap) : heap'[o].is_dead = heap[o].is_dead
           /\ \A t \in Threads :
                (/\ BrokerCompletes(t) /\ pc'[t] # "b_port"
                 /\ ~frame[t].ovl
                 /\ frame[t].old = ParsedPair(frame[t].raw))
                    => /\ heap'[frame[t].self].host = frame[t].old[1]
                       /\ heap'[frame[t].self].port = frame[t].old[2]
         ]_vars

\* A callback of the map has run alone on a map with a member and has read the
\* children the map already had.
C12_Witness ==
    /\ pc[ZkThread] = "m_ret" /\ ~frame[ZkThread].ovl
    /\ frame[ZkThread].snap = DOMAIN frame[ZkThread].before
    /\ frame[ZkThread].snap # {}

\* A callback of a configured Broker, running alone, has read a node value that
\* parses to the host and port the Broker had, and has assigned the host.
C12_WitnessBroker ==
    /\ pc[ZkThread] = "b_port" /\ ~frame[ZkThread].ovl
    /\ IsInt(frame[ZkThread].data)
    /\ frame[ZkThread].old = ParsedPair(frame[ZkThread].raw)
    /\ configured[frame[ZkThread].self] = "Configured"

\* The node values a pass of Broker._configure parses without error.
Parsable == {d \in DataValues : Len(Split(d, ":")) = 3 /\ IsInt(Split(d, ":")[3])}

\* C13: a Broker that is not dead and whose host and port a reader gets without
\* waiting (it is configured) has host and port both unset or both taken from
\* one node value.
C13_Paired ==
    \A o \in 1..Len(heap) :
        (configured[o] = "Configured" /\ ~heap[o].is_dead)
            => \/ heap[o].host = None /\ heap[o].port = None
               \/ \E d \in Parsable : <<heap[o].host, heap[o].port>> = ParsedPair(d)

\* The positions of a pass between its read of the children and its return:
\* it computes and applies its diff there.
ApplyPcs == MapPcs \ {"m_fetch", "m_ret"}

\* C14: the passes of BrokerMap._configure apply their diffs one at a time (at
\* most one thread is between its read of the children and its return), and no
\* pass ends with the KeyError of an id that another pass has removed.
C14_NoInterleaving ==
    /\ Cardinality({t \in Threads : pc[t] \in ApplyPcs}) <= 1
    /\ ~(returned.op = "_configure" /\ returned.err = "KeyError")

\* The child ids of /brokers/ids.
RemoteIds == {ParseInt(n) : n \in DOMAIN nodes}

\* C15: the children stop changing (the model makes MaxChanges changes at
\* most); from some point on the configured map has the remote child ids as
\* its keys.
C15_EventuallyConsistent ==
    <>[](configured[MapEntity] = "Configured" => DOMAIN brokers = RemoteIds)

\* C16: is_dead of a Broker never goes from True back to False, and an id that
\* enters the map, one that was a member before and was evicted included, maps
\* to a Broker object created in that step: it is none of the objects that
\* existed, it is not dead and its host and port are unset.
C16_FreshRecord ==
    [][ /\ \A o \in 1..Len(heap) : heap[o].is_dead => heap'[o].is_dead
        /\ \A k \in DOMAIN brokers' \ DOMAIN brokers :
              /\ brokers'[k] \notin 1..Len(heap)
              /\ heap'[brokers'[k]] = NewBroker(k)
      ]_vars

\* Broker 9 went away and came back: the map holds a second object for it, not
\* dead and without host and port, and the first one, evicted, is still dead.
C16_Witness ==
    /\ Len(heap) = 2
    /\ heap[1].id = 9 /\ heap[1].is_dead
    /\ hist.passes[MapEntity] = 2
    /\ 9 \in DOMAIN brokers /\ brokers[9] = 2
    /\ heap[2] = NewBroker(9)

\* Thread t enters Broker._configure of the Broker o in this step.
EntersBrokerPass(t, o) ==
    /\ ~InBrokerPass(t, o)
    /\ pc'[t] \in BrokerPcs /\ frame'[t].self = o

\* C17: a Broker comes into being with host and port unset, unconfigured and
\* without a watch; its host and port are written, and a watch on its node is
\* armed, only by a thread inside Broker._configure of that Broker; and a
\* thread enters Broker._configure of a Broker never from within
\* BrokerMap._configure, but only as a caller that reads host, port or client
\* of the unconfigured Broker, or as the event thread delivering a watch of it.
C17_Lazy ==
    [][ /\ \A o \in (1..Len(heap')) \ (1..Len(heap)) :
              /\ heap'[o].host = None /\ heap'[o].port = None
              /\ configured'[o] = "Unconfigured"
              /\ armed'[o] = 0 /\ fired'[o] = 0
        /\ \A o \in 1..Len(heap) :
              /\ (heap'[o].host # heap[o].host \/ heap'[o].port # heap[o].port
                     \/ armed'[o] > armed[o])
                    => \E t \in Threads : InBrokerPass(t, o)
              /\ \A t \in Threads :
                    EntersBrokerPass(t, o)
                        => /\ ~InMapPass(t)
                           /\ t \in Callers
                                 => /\ pc[t] \in {"idle", "c_host", "c_port"}
                                    /\ configured[o] = "Unconfigured"
                           /\ t = ZkThread => fired[o] > 0
      ]_vars

\* The map is configured and the Broker it created has neither host nor port
\* nor a watch; a caller that asked for its client is about to fetch its data.
C17_Witness ==
    \E t \in Callers :
        /\ pc[t] = "b_get" /\ frame[t].cont = "c_host"
        /\ configured[MapEntity] = "Configured"
        /\ heap[frame[t].self] = NewBroker(heap[frame[t].self].id)
        /\ armed[frame[t].self] = 0 /\ fired[frame[t].self] = 0

\* C18: while no thread is inside BrokerMap._configure, every key of the map
\* maps to a Broker that has that id and is not dead, no Broker is under two
\* keys, and no dead Broker is in the map.
C18_WellFormed ==
    (\A t \in Threads : ~InMapPass(t))
        => /\ \A k \in DOMAIN brokers :
                /\ brokers[k] \in 1..Len(heap)
                /\ heap[brokers[k]].id = k
                /\ ~heap[brokers[k]].is_dead
           /\ \A k1, k2 \in DOMAIN brokers : brokers[k1] = brokers[k2] => k1 = k2
           /\ \A o \in 1..Len(heap) : heap[o].is_dead => o \notin Range(brokers)

\* No pass is under way; the map holds one broker and another one was evicted.
C18_Witness ==
    /\ \A t \in Threads : ~InMapPass(t)
    /\ DOMAIN brokers # {}
    /\ \E o \in 1..Len(heap) : heap[o].is_dead
    /\ hist.passes[MapEntity] >= 1

\* C19: no entity has more than one watch registered on its path.
C19_OneWatch == \A e \in Entities : armed[e] <= 1

====
